---- MODULE Spec2Model ----
(***************************************************************************)
(* A model of misc/cmake_converter/scons_to_cmake.py: the SCons-to-CMake   *)
(* converter.  Text is modelled as a sequence of one-character strings,    *)
(* the regular expressions of the source as sequences of atoms run by a   *)
(* backtracking matcher with Python's priorities (greedy: longest first,   *)
(* lazy: shortest first, search: leftmost start first), and the project    *)
(* tree as a set of directories and a map from file paths to contents.     *)
(*                                                                         *)
(* The source file as shipped has a stray "]" on line 342 (the list it     *)
(* closes is never opened), so the interpreter rejects it.  The model      *)
(* follows the statements as written: lines 326-341, inside the else       *)
(* branch, are expression statements and append nothing to the content.    *)
(***************************************************************************)
EXTENDS Integers, Sequences, FiniteSets, TLC

VARIABLES
    rootIsDir,        \* os.path.isdir(root_dir)
    dirs,             \* the directories under the project root (paths)
    files,            \* the files under the project root: path -> content
    perm,             \* the order in which the file system lists entries
    reordered,        \* the file system changed its listing order between runs
    pc,               \* position in main()/convert(), or in a function's harness
    exit,             \* <<status>> once the process has ended, <<>> while it runs
    run,              \* number of the current invocation
    scons_options,    \* convert(): scons_options
    platform_configs, \* convert(): platform_configs
    modules,          \* convert(): modules
    log,              \* lines printed by the current invocation
    snapshot,         \* the files left by the first invocation
    line,             \* _parse_option: its argument
    option,           \* _parse_option: its result
    text,             \* _extract_list_items: its argument
    items,            \* _extract_list_items: its result
    content,          \* _parse_platform_detect: the text of detect.py
    config,           \* _parse_platform_detect: its result
    argc,             \* len(os.sys.argv)
    written           \* the declaration the option line was written from

vars == <<rootIsDir, dirs, files, perm, reordered, pc, exit, run, scons_options,
          platform_configs, modules, log, snapshot, line, option, text, items,
          content, config, argc, written>>

treeVars == <<argc, rootIsDir, dirs, files, perm, reordered, exit, run, scons_options,
              platform_configs, modules, log, snapshot>>
harnessVars == <<line, written, option, text, items, content, config>>

(***************************************************************************)
(* Bounds of the model.                                                    *)
(***************************************************************************)
MaxTextLen == 4   \* longest text given to _extract_list_items
MaxLines == 3     \* most body lines of a detect.py
MaxSrc == 2       \* most source files in a library or module directory
MaxRuns == 2      \* invocations of the converter on one tree

(***************************************************************************)
(* Characters and Python's str methods.                                    *)
(***************************************************************************)
LowerCase == <<"a", "b", "c", "d", "e", "f", "g", "h", "i", "j", "k", "l", "m", "n", "o", "p", "q", "r", "s", "t", "u", "v", "w", "x", "y", "z">>
UpperCase == <<"A", "B", "C", "D", "E", "F", "G", "H", "I", "J", "K", "L", "M", "N", "O", "P", "Q", "R", "S", "T", "U", "V", "W", "X", "Y", "Z">>
Digits == <<"0", "1", "2", "3", "4", "5", "6", "7", "8", "9">>

Range(s) == {s[i] : i \in 1..Len(s)}

Whitespace == {" ", "\t", "\n", "\r", "\f"}
WordChars == Range(LowerCase) \cup Range(UpperCase) \cup Range(Digits) \cup {"_"}
QuoteChars == {" ", "\"", "'"}

\* s.strip(chars): s without its leading and trailing characters of chars.
Strip(s, chars) ==
    LET kept == {i \in 1..Len(s) : s[i] \notin chars}
    IN  IF kept = {} THEN <<>>
        ELSE SubSeq(s, CHOOSE i \in kept : \A j \in kept : i <= j,
                       CHOOSE i \in kept : \A j \in kept : i >= j)

RECURSIVE Split(_, _)
Split(s, sep) ==
    IF \E i \in 1..Len(s) : s[i] = sep
    THEN LET i == CHOOSE j \in 1..Len(s) :
                      s[j] = sep /\ \A k \in 1..(j - 1) : s[k] # sep
         IN  <<SubSeq(s, 1, i - 1)>> \o Split(SubSeq(s, i + 1, Len(s)), sep)
    ELSE <<s>>

StartsWith(s, prefix) ==
    Len(s) >= Len(prefix) /\ SubSeq(s, 1, Len(prefix)) = prefix

Contains(s, sub) ==
    \E i \in 1..(Len(s) - Len(sub) + 1) : SubSeq(s, i, i + Len(sub) - 1) = sub

LowerChar(c) ==
    IF \E i \in 1..Len(UpperCase) : UpperCase[i] = c
    THEN LowerCase[CHOOSE i \in 1..Len(UpperCase) : UpperCase[i] = c]
    ELSE c

Lower(s) == [i \in 1..Len(s) |-> LowerChar(s[i])]

\* The concatenation of the sequences of ss, halving to keep evaluation shallow.
RECURSIVE Flatten(_)
Flatten(ss) ==
    IF ss = <<>> THEN <<>>
    ELSE IF Len(ss) = 1 THEN ss[1]
    ELSE LET h == Len(ss) \div 2
         IN  Flatten(SubSeq(ss, 1, h)) \o Flatten(SubSeq(ss, h + 1, Len(ss)))

(***************************************************************************)
(* Regular expressions: a pattern is a sequence of atoms.                  *)
(***************************************************************************)
Lit(c) == [t |-> "lit", c |-> c]
Lits(s) == [i \in 1..Len(s) |-> Lit(s[i])]
Rep(cls, min, greedy) == [t |-> "rep", cls |-> cls, min |-> min, greedy |-> greedy]
Open(g) == [t |-> "open", g |-> g]
Close(g) == [t |-> "close", g |-> g]
Look(alts, atEnd) == [t |-> "look", alts |-> alts, atEnd |-> atEnd]

InClass(cls, c) ==
    CASE cls = "dot" -> c # "\n"
      [] cls = "any" -> TRUE
      [] cls = "notquote" -> c # "\""
      [] cls = "space" -> c \in Whitespace
      [] cls = "word" -> c \in WordChars

\* How many characters of class cls stand in a row from position i on.
RunLen(cls, s, i) ==
    LET stop == {j \in i..(Len(s) + 1) : j = Len(s) + 1 \/ ~InClass(cls, s[j])}
    IN  (CHOOSE j \in stop : \A k \in stop : j <= k) - i

NoGroups == [g \in 1..4 |-> <<0, 0>>]
NoMatch == [ok |-> FALSE, start |-> 0, end |-> 0, groups |-> NoGroups]

\* MatchAt: the match of atoms k.. of re at position i of s that Python's
\* backtracking finds first.  A repetition tries its counts longest first
\* when greedy and shortest first when lazy.
RECURSIVE MatchAt(_, _, _, _, _)
RECURSIVE TryEach(_, _, _, _, _, _)

LookingAt(a, s, i) ==
    \/ a.atEnd /\ i = Len(s) + 1
    \/ \E alt \in a.alts : StartsWith(SubSeq(s, i, Len(s)), alt)

\* Whether atom k can match at position i at all, as far as its first
\* character tells: a count after which the next atom cannot start is a
\* count the matcher gives up at once.
RECURSIVE CanStart(_, _, _, _)
CanStart(re, k, s, i) ==
    IF k > Len(re) THEN TRUE
    ELSE CASE re[k].t = "lit" -> i <= Len(s) /\ s[i] = re[k].c
           [] re[k].t = "look" -> LookingAt(re[k], s, i)
           [] re[k].t \in {"open", "close"} -> CanStart(re, k + 1, s, i)
           [] OTHER -> TRUE

MatchAt(re, k, s, i, groups) ==
    IF k > Len(re)
    THEN [ok |-> TRUE, start |-> 0, end |-> i, groups |-> groups]
    ELSE LET a == re[k]
         IN  CASE a.t = "lit" ->
                    IF i <= Len(s) /\ s[i] = a.c
                    THEN MatchAt(re, k + 1, s, i + 1, groups)
                    ELSE NoMatch
               [] a.t = "open" ->
                    MatchAt(re, k + 1, s, i, [groups EXCEPT ![a.g] = <<i, i>>])
               [] a.t = "close" ->
                    MatchAt(re, k + 1, s, i, [groups EXCEPT ![a.g][2] = i])
               [] a.t = "look" ->
                    IF LookingAt(a, s, i)
                    THEN MatchAt(re, k + 1, s, i, groups)
                    ELSE NoMatch
               [] a.t = "rep" ->
                    LET hi == RunLen(a.cls, s, i)
                        counts == [j \in 1..(hi - a.min + 1) |->
                                      IF a.greedy THEN hi + 1 - j ELSE a.min + j - 1]
                    IN  TryEach(re, k, s, i, groups,
                                SelectSeq(counts, LAMBDA n : CanStart(re, k + 1, s, i + n)))

TryEach(re, k, s, i, groups, counts) ==
    IF counts = <<>>
    THEN NoMatch
    ELSE LET r == MatchAt(re, k + 1, s, i + Head(counts), groups)
         IN  IF r.ok THEN r ELSE TryEach(re, k, s, i, groups, Tail(counts))

\* re.search from position from on: the leftmost start that matches.
Search(re, s, from) ==
    LET starts == {i \in from..(Len(s) + 1) :
                      CanStart(re, 1, s, i) /\ MatchAt(re, 1, s, i, NoGroups).ok}
        first == CHOOSE i \in starts : \A j \in starts : i <= j
    IN  IF starts = {} THEN NoMatch
        ELSE [MatchAt(re, 1, s, first, NoGroups) EXCEPT !.start = first]

Group(s, m, g) == SubSeq(s, m.groups[g][1], m.groups[g][2] - 1)

RECURSIVE FindIter(_, _, _)
FindIter(re, s, from) ==
    LET m == Search(re, s, from)
    IN  IF ~m.ok
        THEN <<>>
        ELSE <<m>> \o FindIter(re, s, IF m.end > m.start THEN m.end ELSE m.end + 1)

(***************************************************************************)
(* _extract_list_items                                                     *)
(***************************************************************************)
ListRe == <<Lit("["), Open(1), Rep("dot", 0, FALSE), Close(1), Lit("]")>>

ItemsOfMatch(items_str) ==
    LET kept == SelectSeq(Split(items_str, ","), LAMBDA item : Strip(item, Whitespace) # <<>>)
    IN  [i \in 1..Len(kept) |-> Strip(kept[i], QuoteChars)]

_extract_list_items(t) ==
    LET matches == FindIter(ListRe, t, 1)
    IN  Flatten([i \in 1..Len(matches) |-> ItemsOfMatch(Group(t, matches[i], 1))])

(***************************************************************************)
(* _parse_option                                                           *)
(***************************************************************************)
Quoted(g) == <<Lit("\""), Open(g), Rep("notquote", 1, TRUE), Close(g), Lit("\"")>>
Spaces == <<Rep("space", 0, TRUE)>>
Comma == <<Lit(",")>>

\* r'opts\.Add\((.*?)\)'
OptsAddRe == Lits(<<"o", "p", "t", "s", ".", "A", "d", "d", "(">>) \o <<Open(1), Rep("dot", 0, FALSE), Close(1), Lit(")")>>

\* r'BoolVariable\("([^"]+)",\s*"([^"]+)",\s*(\w+)\)'
BoolRe ==
    Lits(<<"B", "o", "o", "l", "V", "a", "r", "i", "a", "b", "l", "e", "(">>) \o Quoted(1) \o Comma \o Spaces \o Quoted(2) \o Comma \o Spaces
        \o <<Open(3), Rep("word", 1, TRUE), Close(3), Lit(")")>>

\* r'EnumVariable\("([^"]+)",\s*"([^"]+)",\s*"([^"]+)",\s*\((.*?)\)\)'
EnumRe ==
    Lits(<<"E", "n", "u", "m", "V", "a", "r", "i", "a", "b", "l", "e", "(">>) \o Quoted(1) \o Comma \o Spaces \o Quoted(2) \o Comma \o Spaces
        \o Quoted(3) \o Comma \o Spaces
        \o <<Lit("("), Open(4), Rep("dot", 0, FALSE), Close(4), Lit(")"), Lit(")")>>

\* r'"\s*,\s*"([^"]+)"\s*,\s*"([^"]+)"\s*,\s*"([^"]+)"'
StrRe ==
    <<Lit("\"")>> \o Spaces \o Comma \o Spaces \o Quoted(1) \o Spaces \o Comma \o Spaces
        \o Quoted(2) \o Spaces \o Comma \o Spaces \o Quoted(3)

None == [type |-> "none"]

_parse_option(ln) ==
    LET match == Search(OptsAddRe, ln, 1)
        args == Group(ln, match, 1)
        bool_match == Search(BoolRe, args, 1)
        enum_match == Search(EnumRe, args, 1)
        str_match == Search(StrRe, args, 1)
    IN  IF ~match.ok THEN None
        ELSE IF bool_match.ok
        THEN [type |-> "bool",
              name |-> Group(args, bool_match, 1),
              desc |-> Group(args, bool_match, 2),
              default |-> (Lower(Group(args, bool_match, 3)) = <<"t", "r", "u", "e">>)]
        ELSE IF enum_match.ok
        THEN [type |-> "enum",
              name |-> Group(args, enum_match, 1),
              desc |-> Group(args, enum_match, 2),
              default |-> Group(args, enum_match, 3),
              values |-> LET vs == Split(Group(args, enum_match, 4), ",")
                         IN  [i \in 1..Len(vs) |-> Strip(vs[i], QuoteChars)]]
        ELSE IF str_match.ok
        THEN [type |-> "string",
              name |-> Group(args, str_match, 1),
              desc |-> Group(args, str_match, 2),
              default |-> Group(args, str_match, 3)]
        ELSE None

(***************************************************************************)
(* Python dicts keep insertion order; every dict of the converter maps a   *)
(* name to a record holding that name, so a dict is the sequence of its    *)
(* values.                                                                 *)
(***************************************************************************)
DictSet(d, v) ==
    IF \E i \in 1..Len(d) : d[i].name = v.name
    THEN [d EXCEPT ![CHOOSE i \in 1..Len(d) : d[i].name = v.name] = v]
    ELSE Append(d, v)

Keys(d) == [i \in 1..Len(d) |-> d[i].name]

(***************************************************************************)
(* _parse_sconstruct, on the text of SConstruct                            *)
(***************************************************************************)
RECURSIVE ParseOptionLines(_, _)
ParseOptionLines(lines, options) ==
    IF lines = <<>> THEN options
    ELSE LET ln == Head(lines)
             opt == _parse_option(ln)
         IN  IF StartsWith(Strip(ln, Whitespace), <<"o", "p", "t", "s", ".", "A", "d", "d", "(">>) /\ opt # None
             THEN ParseOptionLines(Tail(lines), DictSet(options, opt))
             ELSE ParseOptionLines(Tail(lines), options)

_parse_sconstruct(sconstruct) == ParseOptionLines(Split(sconstruct, "\n"), <<>>)

(***************************************************************************)
(* _parse_platform_detect, on the text of detect.py                        *)
(***************************************************************************)
\* r'def\s+get_flags\(\):\s*(.*?)(?=def|\Z)' with re.DOTALL
FunctionRe(fname) ==
    Lits(<<"d", "e", "f">>) \o <<Rep("space", 1, TRUE)>> \o Lits(fname) \o Lits(<<"(", ")", ":">>) \o Spaces
        \o <<Open(1), Rep("any", 0, FALSE), Close(1), Look({<<"d", "e", "f">>}, TRUE)>>

FunctionItems(fname, detect) ==
    LET m == Search(FunctionRe(fname), detect, 1)
    IN  IF m.ok THEN _extract_list_items(Group(detect, m, 1)) ELSE <<>>

_parse_platform_detect(platform, detect) ==
    [name |-> platform,
     defines |-> <<>>,
     libs |-> FunctionItems(<<"g", "e", "t", "_", "l", "i", "b", "s">>, detect),
     includes |-> <<>>,
     flags |-> FunctionItems(<<"g", "e", "t", "_", "f", "l", "a", "g", "s">>, detect)]

(***************************************************************************)
(* _parse_module, on the text of SCsub (NoFile when the module has none)   *)
(***************************************************************************)
NoFile == <<"<absent>">>

AnchoredItems(anchor, scsub) ==
    LET lines == Split(scsub, "\n")
    IN  Flatten([i \in 1..Len(lines) |->
                    IF Contains(lines[i], anchor)
                    THEN _extract_list_items(lines[i])
                    ELSE <<>>])

_parse_module(module, scsub) ==
    [name |-> module,
     sources |-> IF scsub = NoFile THEN <<>> ELSE AnchoredItems(<<"e", "n", "v", ".", "a", "d", "d", "_", "s", "o", "u", "r", "c", "e", "_", "f", "i", "l", "e", "s">>, scsub),
     deps |-> IF scsub = NoFile THEN <<>> ELSE AnchoredItems(<<"e", "n", "v", ".", "D", "e", "p", "e", "n", "d", "s">>, scsub),
     defines |-> <<>>,
     includes |-> <<>>]

(***************************************************************************)
(* The project tree.  A name is a text, a path is the sequence of names    *)
(* from the project root down, and fs is a record holding the set of       *)
(* directories and the map from file paths to their contents (texts).      *)
(***************************************************************************)
\* sep.join(strs), halving to keep evaluation shallow.
RECURSIVE JoinWith(_, _)
JoinWith(sep, strs) ==
    IF strs = <<>> THEN <<>>
    ELSE IF Len(strs) = 1 THEN strs[1]
    ELSE LET h == Len(strs) \div 2
         IN  JoinWith(sep, SubSeq(strs, 1, h)) \o sep
                 \o JoinWith(sep, SubSeq(strs, h + 1, Len(strs)))

EndsWith(s, suffix) ==
    Len(s) >= Len(suffix) /\ SubSeq(s, Len(s) - Len(suffix) + 1, Len(s)) = suffix

RootDir == <<>>
RootDirStr == <<"g", "o", "d", "o", "t">>

\* os.path.relpath(file, dir) for a file below dir, and str(root_dir / ...)
RelPath(p, dir) == JoinWith(<<"/">>, SubSeq(p, Len(dir) + 1, Len(p)))
PathStr(p) == JoinWith(<<"/">>, <<RootDirStr>> \o p)

SConstructPath == <<<<"S", "C", "o", "n", "s", "t", "r", "u", "c", "t">>>>
PlatformDir == <<<<"p", "l", "a", "t", "f", "o", "r", "m">>>>
ModulesDir == <<<<"m", "o", "d", "u", "l", "e", "s">>>>
CMakeDir == <<<<"c", "m", "a", "k", "e">>>>
DetectPy == <<"d", "e", "t", "e", "c", "t", ".", "p", "y">>
SCsub == <<"S", "C", "s", "u", "b">>
CMakeLists == <<"C", "M", "a", "k", "e", "L", "i", "s", "t", "s", ".", "t", "x", "t">>

Parent(p) == SubSeq(p, 1, Len(p) - 1)
IsDir(fs, p) == p \in fs.dirs
IsFile(fs, p) == p \in DOMAIN fs.files
Exists(fs, p) == IsDir(fs, p) \/ IsFile(fs, p)

\* The entries of directory d in the order the file system lists them: order
\* is a sequence holding every name once.
Listing(fs, order, d) == SelectSeq(order, LAMBDA n : Exists(fs, Append(d, n)))

\* with open(p, "w") as f: f.write(data).  It needs the parent directory to
\* exist and p not to be a directory; otherwise it raises.
Write(st, p, data) ==
    IF IsDir(st, Parent(p)) /\ ~IsDir(st, p)
    THEN [st EXCEPT !.files = (p :> data) @@ st.files]
    ELSE [st EXCEPT !.ok = FALSE]

\* print(msg)
Stdout(st, msg) == [st EXCEPT !.log = Append(st.log, msg)]

RECURSIVE StdoutAll(_, _)
StdoutAll(st, msgs) ==
    IF msgs = <<>> THEN st ELSE StdoutAll(Stdout(st, Head(msgs)), Tail(msgs))

(***************************************************************************)
(* glob.glob(str(dir / '**' / pattern), recursive=True), pattern '*' + ext: *)
(* the matches in dir itself, then those of each subdirectory, depth       *)
(* first, every directory in listing order; names starting with a dot      *)
(* are skipped.                                                            *)
(***************************************************************************)
Hidden(n) == n # <<>> /\ n[1] = "."
FnMatch(n, ext) == EndsWith(n, ext)

RECURSIVE RGlob(_, _, _, _)
RGlob(fs, order, d, ext) ==
    IF ~IsDir(fs, d) THEN <<>>
    ELSE LET ls == SelectSeq(Listing(fs, order, d), LAMBDA n : ~Hidden(n))
             here == SelectSeq(ls, LAMBDA n : FnMatch(n, ext))
             subs == SelectSeq(ls, LAMBDA n : IsDir(fs, Append(d, n)))
         IN  [i \in 1..Len(here) |-> Append(d, here[i])]
                 \o Flatten([i \in 1..Len(subs) |-> RGlob(fs, order, Append(d, subs[i]), ext)])

\* Variant for sensitivity analysis: the extension list also takes in text files.
SourceExtsWithTxt == <<<<".", "c", "p", "p">>, <<".", "c">>, <<".", "h">>, <<".", "h", "p", "p">>, <<".", "i", "n", "c">>, <<".", "t", "x", "t">>>>

\* for ext in ['*.cpp', '*.c', '*.h', '*.hpp', '*.inc']
SourceExts == <<<<".", "c", "p", "p">>, <<".", "c">>, <<".", "h">>, <<".", "h", "p", "p">>, <<".", "i", "n", "c">>>>

\* The files found under dir, each as its path relative to dir.
FindSources(fs, order, dir) ==
    LET found == Flatten([e \in 1..Len(SourceExts) |-> RGlob(fs, order, dir, SourceExts[e])])
    IN  [i \in 1..Len(found) |-> RelPath(found[i], dir)]

Indent(n, lines) == [i \in 1..Len(lines) |-> n \o lines[i]]

(***************************************************************************)
(* _parse_platform_configs and _parse_modules                              *)
(***************************************************************************)
RECURSIVE PlatformLoop(_, _, _)
PlatformLoop(fs, entries, configs) ==
    IF entries = <<>> THEN configs
    ELSE LET platform_path == Append(PlatformDir, Head(entries))
             detect_py == Append(platform_path, DetectPy)
         IN  IF ~IsDir(fs, platform_path) \/ ~Exists(fs, detect_py)
             THEN PlatformLoop(fs, Tail(entries), configs)
             ELSE PlatformLoop(fs, Tail(entries),
                      DictSet(configs,
                          _parse_platform_detect(Head(entries), fs.files[detect_py])))

_parse_platform_configs(fs, order) ==
    PlatformLoop(fs, Listing(fs, order, PlatformDir), <<>>)

RECURSIVE ModuleLoop(_, _, _)
ModuleLoop(fs, entries, mods) ==
    IF entries = <<>> THEN mods
    ELSE LET module_path == Append(ModulesDir, Head(entries))
             scsub == Append(module_path, SCsub)
         IN  IF ~IsDir(fs, module_path)
             THEN ModuleLoop(fs, Tail(entries), mods)
             ELSE ModuleLoop(fs, Tail(entries),
                      DictSet(mods,
                          _parse_module(Head(entries),
                              IF Exists(fs, scsub) THEN fs.files[scsub] ELSE NoFile)))

\* Variant for sensitivity analysis: a module directory without a manifest is skipped, as a platform
\* directory without a detection descriptor is.
ModulesWithManifest(fs, order) ==
    SelectSeq(ModuleLoop(fs, Listing(fs, order, ModulesDir), <<>>),
              LAMBDA c : Exists(fs, <<<<"m", "o", "d", "u", "l", "e", "s">>, c.name, SCsub>>))

_parse_modules(fs, order) == ModuleLoop(fs, Listing(fs, order, ModulesDir), <<>>)

(***************************************************************************)
(* _generate_root_cmakelists                                               *)
(***************************************************************************)
OptionLines(opt) ==
    CASE opt.type = "bool" ->
            <<<<"o", "p", "t", "i", "o", "n", "(">> \o opt.name \o <<" ", "\"">> \o opt.desc \o <<"\"", " ">>
                \o (IF opt.default THEN <<"T", "R", "U", "E">> ELSE <<"F", "A", "L", "S", "E">>) \o <<")">>>>
      [] opt.type = "string" ->
            <<<<"s", "e", "t", "(">> \o opt.name \o <<" ", "\"">> \o opt.default
                \o <<"\"", " ", "C", "A", "C", "H", "E", " ", "S", "T", "R", "I", "N", "G", " ", "\"">> \o opt.desc \o <<"\"", ")">>>>
      [] opt.type = "enum" ->
            <<<<"s", "e", "t", "(">> \o opt.name \o <<" ", "\"">> \o opt.default
                \o <<"\"", " ", "C", "A", "C", "H", "E", " ", "S", "T", "R", "I", "N", "G", " ", "\"">> \o opt.desc \o <<"\"", ")">>,
              <<"s", "e", "t", "_", "p", "r", "o", "p", "e", "r", "t", "y", "(", "C", "A", "C", "H", "E", " ">> \o opt.name \o <<" ", "P", "R", "O", "P", "E", "R", "T", "Y", " ", "S", "T", "R", "I", "N", "G", "S", " ">>
                \o JoinWith(<<";">>, opt.values) \o <<")">>>>

RootHeader ==
    <<<<"c", "m", "a", "k", "e", "_", "m", "i", "n", "i", "m", "u", "m", "_", "r", "e", "q", "u", "i", "r", "e", "d", "(", "V", "E", "R", "S", "I", "O", "N", " ", "3", ".", "2", "0", ")">>,
      <<"p", "r", "o", "j", "e", "c", "t", "(", "g", "o", "d", "o", "t", ")">>,
      <<>>,
      <<"#", " ", "G", "l", "o", "b", "a", "l", " ", "s", "e", "t", "t", "i", "n", "g", "s">>,
      <<"s", "e", "t", "(", "C", "M", "A", "K", "E", "_", "C", "X", "X", "_", "S", "T", "A", "N", "D", "A", "R", "D", " ", "1", "7", ")">>,
      <<"s", "e", "t", "(", "C", "M", "A", "K", "E", "_", "C", "X", "X", "_", "S", "T", "A", "N", "D", "A", "R", "D", "_", "R", "E", "Q", "U", "I", "R", "E", "D", " ", "O", "N", ")">>,
      <<"s", "e", "t", "(", "C", "M", "A", "K", "E", "_", "P", "O", "S", "I", "T", "I", "O", "N", "_", "I", "N", "D", "E", "P", "E", "N", "D", "E", "N", "T", "_", "C", "O", "D", "E", " ", "O", "N", ")">>,
      <<>>,
      <<"#", " ", "O", "p", "t", "i", "o", "n", "s">>>>

RootFooter ==
    <<<<>>,
      <<"#", " ", "P", "l", "a", "t", "f", "o", "r", "m", " ", "d", "e", "t", "e", "c", "t", "i", "o", "n">>,
      <<"i", "f", "(", "W", "I", "N", "3", "2", ")">>,
      <<" ", " ", " ", " ", "s", "e", "t", "(", "P", "L", "A", "T", "F", "O", "R", "M", "_", "N", "A", "M", "E", " ", "w", "i", "n", "d", "o", "w", "s", ")">>,
      <<"e", "l", "s", "e", "i", "f", "(", "A", "P", "P", "L", "E", ")">>,
      <<" ", " ", " ", " ", "s", "e", "t", "(", "P", "L", "A", "T", "F", "O", "R", "M", "_", "N", "A", "M", "E", " ", "m", "a", "c", "o", "s", ")">>,
      <<"e", "l", "s", "e", "i", "f", "(", "U", "N", "I", "X", ")">>,
      <<" ", " ", " ", " ", "s", "e", "t", "(", "P", "L", "A", "T", "F", "O", "R", "M", "_", "N", "A", "M", "E", " ", "l", "i", "n", "u", "x", "b", "s", "d", ")">>,
      <<"e", "n", "d", "i", "f", "(", ")">>,
      <<>>,
      <<"#", " ", "I", "n", "c", "l", "u", "d", "e", " ", "p", "l", "a", "t", "f", "o", "r", "m", "-", "s", "p", "e", "c", "i", "f", "i", "c", " ", "c", "o", "n", "f", "i", "g", "u", "r", "a", "t", "i", "o", "n">>,
      <<"i", "n", "c", "l", "u", "d", "e", "(", "c", "m", "a", "k", "e", "/", "p", "l", "a", "t", "f", "o", "r", "m", "_", "$", "{", "P", "L", "A", "T", "F", "O", "R", "M", "_", "N", "A", "M", "E", "}", ".", "c", "m", "a", "k", "e", ")">>,
      <<>>,
      <<"#", " ", "A", "d", "d", " ", "s", "u", "b", "d", "i", "r", "e", "c", "t", "o", "r", "i", "e", "s">>,
      <<"a", "d", "d", "_", "s", "u", "b", "d", "i", "r", "e", "c", "t", "o", "r", "y", "(", "c", "o", "r", "e", ")">>,
      <<"a", "d", "d", "_", "s", "u", "b", "d", "i", "r", "e", "c", "t", "o", "r", "y", "(", "d", "r", "i", "v", "e", "r", "s", ")">>,
      <<"a", "d", "d", "_", "s", "u", "b", "d", "i", "r", "e", "c", "t", "o", "r", "y", "(", "m", "a", "i", "n", ")">>,
      <<"a", "d", "d", "_", "s", "u", "b", "d", "i", "r", "e", "c", "t", "o", "r", "y", "(", "m", "o", "d", "u", "l", "e", "s", ")">>,
      <<"a", "d", "d", "_", "s", "u", "b", "d", "i", "r", "e", "c", "t", "o", "r", "y", "(", "p", "l", "a", "t", "f", "o", "r", "m", ")">>,
      <<"a", "d", "d", "_", "s", "u", "b", "d", "i", "r", "e", "c", "t", "o", "r", "y", "(", "s", "c", "e", "n", "e", ")">>,
      <<"a", "d", "d", "_", "s", "u", "b", "d", "i", "r", "e", "c", "t", "o", "r", "y", "(", "s", "e", "r", "v", "e", "r", "s", ")">>,
      <<>>,
      <<"#", " ", "M", "a", "i", "n", " ", "e", "x", "e", "c", "u", "t", "a", "b", "l", "e">>,
      <<"a", "d", "d", "_", "e", "x", "e", "c", "u", "t", "a", "b", "l", "e", "(", "g", "o", "d", "o", "t">>,
      <<" ", " ", " ", " ", "m", "a", "i", "n", "/", "m", "a", "i", "n", ".", "c", "p", "p">>,
      <<")">>,
      <<>>,
      <<"t", "a", "r", "g", "e", "t", "_", "l", "i", "n", "k", "_", "l", "i", "b", "r", "a", "r", "i", "e", "s", "(", "g", "o", "d", "o", "t">>,
      <<" ", " ", " ", " ", "P", "R", "I", "V", "A", "T", "E">>,
      <<" ", " ", " ", " ", "c", "o", "r", "e">>,
      <<" ", " ", " ", " ", "d", "r", "i", "v", "e", "r", "s">>,
      <<" ", " ", " ", " ", "m", "a", "i", "n">>,
      <<" ", " ", " ", " ", "p", "l", "a", "t", "f", "o", "r", "m">>,
      <<" ", " ", " ", " ", "s", "c", "e", "n", "e">>,
      <<" ", " ", " ", " ", "s", "e", "r", "v", "e", "r", "s">>,
      <<" ", " ", " ", " ", "$", "{", "C", "M", "A", "K", "E", "_", "T", "H", "R", "E", "A", "D", "_", "L", "I", "B", "S", "_", "I", "N", "I", "T", "}">>,
      <<" ", " ", " ", " ", "$", "{", "O", "P", "E", "N", "G", "L", "_", "L", "I", "B", "R", "A", "R", "I", "E", "S", "}">>,
      <<" ", " ", " ", " ", "$", "{", "X", "1", "1", "_", "L", "I", "B", "R", "A", "R", "I", "E", "S", "}">>,
      <<" ", " ", " ", " ", "$", "{", "Z", "L", "I", "B", "_", "L", "I", "B", "R", "A", "R", "I", "E", "S", "}">>,
      <<")">>>>

_generate_root_cmakelists(st, options) ==
    Write(st, Append(RootDir, CMakeLists),
          JoinWith(<<"\n">>, RootHeader
                        \o Flatten([i \in 1..Len(options) |-> OptionLines(options[i])])
                        \o RootFooter))

(***************************************************************************)
(* _generate_platform_cmake_files                                          *)
(***************************************************************************)
PlatformContent(cfg) ==
    <<<<"#", " ", "P", "l", "a", "t", "f", "o", "r", "m", " ", "c", "o", "n", "f", "i", "g", "u", "r", "a", "t", "i", "o", "n", " ", "f", "o", "r", " ">> \o cfg.name, <<>>, <<"#", " ", "C", "o", "m", "p", "i", "l", "e", "r", " ", "f", "l", "a", "g", "s">>>>
        \o (IF cfg.flags # <<>>
            THEN <<<<"a", "d", "d", "_", "c", "o", "m", "p", "i", "l", "e", "_", "o", "p", "t", "i", "o", "n", "s", "(">>>> \o Indent(<<" ", " ", " ", " ">>, cfg.flags) \o <<<<")">>, <<>>>>
            ELSE <<>>)
        \o (IF cfg.defines # <<>>
            THEN <<<<"a", "d", "d", "_", "c", "o", "m", "p", "i", "l", "e", "_", "d", "e", "f", "i", "n", "i", "t", "i", "o", "n", "s", "(">>>> \o Indent(<<" ", " ", " ", " ">>, cfg.defines) \o <<<<")">>, <<>>>>
            ELSE <<>>)
        \o (IF cfg.libs # <<>>
            THEN <<<<"t", "a", "r", "g", "e", "t", "_", "l", "i", "n", "k", "_", "l", "i", "b", "r", "a", "r", "i", "e", "s", "(", "g", "o", "d", "o", "t", " ", "P", "R", "I", "V", "A", "T", "E">>>> \o Indent(<<" ", " ", " ", " ">>, cfg.libs) \o <<<<")">>>>
            ELSE <<>>)

RECURSIVE PlatformFiles(_, _)
PlatformFiles(st, configs) ==
    IF configs = <<>> \/ ~st.ok THEN st
    ELSE PlatformFiles(
             Write(st, Append(CMakeDir, <<"p", "l", "a", "t", "f", "o", "r", "m", "_">> \o Head(configs).name \o <<".", "c", "m", "a", "k", "e">>),
                   JoinWith(<<"\n">>, PlatformContent(Head(configs)))),
             Tail(configs))

\* cmake_dir.mkdir(exist_ok=True): fails when cmake exists and is a file.
_generate_platform_cmake_files(st, configs) ==
    IF IsFile(st, CMakeDir)
    THEN [st EXCEPT !.ok = FALSE]
    ELSE PlatformFiles([st EXCEPT !.dirs = st.dirs \cup {CMakeDir}], configs)

(***************************************************************************)
(* _generate_core_cmake_files                                              *)
(***************************************************************************)
core_libs == <<<<"c", "o", "r", "e">>, <<"d", "r", "i", "v", "e", "r", "s">>, <<"m", "a", "i", "n">>, <<"p", "l", "a", "t", "f", "o", "r", "m">>, <<"s", "c", "e", "n", "e">>, <<"s", "e", "r", "v", "e", "r", "s">>>>

\* Lines 326-341 stand in the else branch as expression statements: they
\* are evaluated and dropped, so nothing follows the source list.
LibraryContent(lib, sources) ==
    <<<<"#", " ">> \o lib \o <<" ", "l", "i", "b", "r", "a", "r", "y">>, <<>>, <<"s", "e", "t", "(", "L", "I", "B", "_", "S", "O", "U", "R", "C", "E", "S">>>>
        \o (IF sources # <<>>
            THEN Indent(<<" ", " ", " ", " ">>, sources)
                     \o <<<<")">>, <<>>, <<"a", "d", "d", "_", "l", "i", "b", "r", "a", "r", "y", "(">> \o lib \o <<" ", "S", "T", "A", "T", "I", "C", " ", "$", "{", "L", "I", "B", "_", "S", "O", "U", "R", "C", "E", "S", "}", ")">>>>
            ELSE <<>>)

RECURSIVE CoreLoop(_, _, _)
CoreLoop(st, order, libs) ==
    IF libs = <<>> \/ ~st.ok THEN st
    ELSE LET lib == Head(libs)
             lib_dir == Append(RootDir, lib)
             sources == FindSources(st, order, lib_dir)
             warned == IF sources = <<>>
                       THEN Stdout(st, <<"W", "a", "r", "n", "i", "n", "g", ":", " ", "N", "o", " ", "s", "o", "u", "r", "c", "e", " ", "f", "i", "l", "e", "s", " ", "f", "o", "u", "n", "d", " ", "f", "o", "r", " ", "l", "i", "b", "r", "a", "r", "y", " ">>
                                          \o lib \o <<" ", "i", "n", " ">> \o PathStr(lib_dir))
                       ELSE st
         IN  IF ~Exists(st, lib_dir)
             THEN CoreLoop(st, order, Tail(libs))
             ELSE CoreLoop(Write(warned, Append(lib_dir, CMakeLists),
                                 JoinWith(<<"\n">>, LibraryContent(lib, sources))),
                           order, Tail(libs))

_generate_core_cmake_files(st, order) == CoreLoop(st, order, core_libs)

(***************************************************************************)
(* _generate_module_cmake_files                                            *)
(***************************************************************************)
UmbrellaContent(mods) ==
    <<<<"#", " ", "G", "o", "d", "o", "t", " ", "m", "o", "d", "u", "l", "e", "s">>, <<>>>>
        \o [i \in 1..Len(mods) |-> <<"a", "d", "d", "_", "s", "u", "b", "d", "i", "r", "e", "c", "t", "o", "r", "y", "(">> \o mods[i].name \o <<")">>]

\* Variant for sensitivity analysis: the library target is declared whether or not sources were found.
ModuleContentAlwaysTarget(module, cfg, sources) ==
    <<<<"#", " ">> \o module \o <<" ", "m", "o", "d", "u", "l", "e">>, <<>>, <<"s", "e", "t", "(", "M", "O", "D", "U", "L", "E", "_", "S", "O", "U", "R", "C", "E", "S">>>>
        \o Indent(<<" ", " ", " ", " ">>, sources)
        \o <<<<")">>, <<>>, <<"a", "d", "d", "_", "l", "i", "b", "r", "a", "r", "y", "(">> \o module \o <<" ", "S", "T", "A", "T", "I", "C", " ", "$", "{", "M", "O", "D", "U", "L", "E", "_", "S", "O", "U", "R", "C", "E", "S", "}", ")">>, <<>>>>
        \o <<<<"t", "a", "r", "g", "e", "t", "_", "i", "n", "c", "l", "u", "d", "e", "_", "d", "i", "r", "e", "c", "t", "o", "r", "i", "e", "s", "(">> \o module,
             <<" ", " ", " ", " ", "P", "U", "B", "L", "I", "C">>,
             <<" ", " ", " ", " ", " ", " ", " ", " ", "$", "{", "C", "M", "A", "K", "E", "_", "C", "U", "R", "R", "E", "N", "T", "_", "S", "O", "U", "R", "C", "E", "_", "D", "I", "R", "}">>,
             <<" ", " ", " ", " ", " ", " ", " ", " ", "$", "{", "C", "M", "A", "K", "E", "_", "S", "O", "U", "R", "C", "E", "_", "D", "I", "R", "}">>,
             <<")">>,
             <<>>>>
        \o (IF cfg.deps # <<>>
            THEN <<<<"t", "a", "r", "g", "e", "t", "_", "l", "i", "n", "k", "_", "l", "i", "b", "r", "a", "r", "i", "e", "s", "(">> \o module, <<" ", " ", " ", " ", "P", "R", "I", "V", "A", "T", "E">>>>
                     \o Indent(<<" ", " ", " ", " ", " ", " ", " ", " ">>, cfg.deps) \o <<<<")">>>>
            ELSE <<>>)

ModuleContent(module, cfg, sources) ==
    <<<<"#", " ">> \o module \o <<" ", "m", "o", "d", "u", "l", "e">>, <<>>, <<"s", "e", "t", "(", "M", "O", "D", "U", "L", "E", "_", "S", "O", "U", "R", "C", "E", "S">>>>
        \o (IF sources # <<>>
            THEN Indent(<<" ", " ", " ", " ">>, sources)
                     \o <<<<")">>, <<>>, <<"a", "d", "d", "_", "l", "i", "b", "r", "a", "r", "y", "(">> \o module \o <<" ", "S", "T", "A", "T", "I", "C", " ", "$", "{", "M", "O", "D", "U", "L", "E", "_", "S", "O", "U", "R", "C", "E", "S", "}", ")">>, <<>>>>
            ELSE <<>>)
        \o <<<<"t", "a", "r", "g", "e", "t", "_", "i", "n", "c", "l", "u", "d", "e", "_", "d", "i", "r", "e", "c", "t", "o", "r", "i", "e", "s", "(">> \o module,
             <<" ", " ", " ", " ", "P", "U", "B", "L", "I", "C">>,
             <<" ", " ", " ", " ", " ", " ", " ", " ", "$", "{", "C", "M", "A", "K", "E", "_", "C", "U", "R", "R", "E", "N", "T", "_", "S", "O", "U", "R", "C", "E", "_", "D", "I", "R", "}">>,
             <<" ", " ", " ", " ", " ", " ", " ", " ", "$", "{", "C", "M", "A", "K", "E", "_", "S", "O", "U", "R", "C", "E", "_", "D", "I", "R", "}">>,
             <<")">>,
             <<>>>>
        \o (IF cfg.deps # <<>>
            THEN <<<<"t", "a", "r", "g", "e", "t", "_", "l", "i", "n", "k", "_", "l", "i", "b", "r", "a", "r", "i", "e", "s", "(">> \o module, <<" ", " ", " ", " ", "P", "R", "I", "V", "A", "T", "E">>>>
                     \o Indent(<<" ", " ", " ", " ", " ", " ", " ", " ">>, cfg.deps) \o <<<<")">>>>
            ELSE <<>>)

RECURSIVE ModuleFiles(_, _, _)
ModuleFiles(st, order, mods) ==
    IF mods = <<>> \/ ~st.ok THEN st
    ELSE LET module == Head(mods).name
             module_dir == Append(ModulesDir, module)
             sources == FindSources(st, order, module_dir)
             found == StdoutAll(st, [i \in 1..Len(sources) |->
                          <<"F", "o", "u", "n", "d", " ", "s", "o", "u", "r", "c", "e", " ", "f", "i", "l", "e", " ", "f", "o", "r", " ", "m", "o", "d", "u", "l", "e", " ">> \o module \o <<":", " ">> \o sources[i]])
             warned == IF sources = <<>>
                       THEN Stdout(found, <<"W", "a", "r", "n", "i", "n", "g", ":", " ", "N", "o", " ", "s", "o", "u", "r", "c", "e", " ", "f", "i", "l", "e", "s", " ", "f", "o", "u", "n", "d", " ", "f", "o", "r", " ", "m", "o", "d", "u", "l", "e", " ">>
                                             \o module \o <<" ", "i", "n", " ">> \o PathStr(module_dir))
                       ELSE found
         IN  ModuleFiles(Write(warned, Append(module_dir, CMakeLists),
                               JoinWith(<<"\n">>, ModuleContent(module, Head(mods), sources))),
                         order, Tail(mods))

_generate_module_cmake_files(st, order, mods) ==
    ModuleFiles(Write(st, Append(ModulesDir, CMakeLists), JoinWith(<<"\n">>, UmbrellaContent(mods))),
                order, mods)

(***************************************************************************)
(* The project trees the converter is run on.                              *)
(***************************************************************************)
EmptyMap == [p \in {} |-> <<>>]
Reverse(s) == [i \in 1..Len(s) |-> s[Len(s) + 1 - i]]
Min(a, b) == IF a <= b THEN a ELSE b

\* Every name a listed directory can hold, and the listing orders considered.
AllNames ==
    <<<<"C", "M", "a", "k", "e", "L", "i", "s", "t", "s", ".", "t", "x", "t">>, <<"S", "C", "s", "u", "b">>, <<"a", ".", "c", "p", "p">>, <<"a", ".", "h">>, <<"b", ".", "c", "p", "p">>, <<"c", ".", "c">>, <<"d", "e", "t", "e", "c", "t", ".", "p", "y">>, <<"f", "i", "l", "e">>,
      <<"l", "i", "n", "u", "x", "b", "s", "d">>, <<"m">>, <<"n">>, <<"r", "e", "a", "d", "m", "e">>, <<"s", "u", "b">>, <<"x">>>>
Orders == {AllNames, Reverse(AllNames)}

SConstructText ==
    <<"#", " ", "o", "p", "t", "i", "o", "n", "s", "\n", "o", "p", "t", "s", ".", "A", "d", "d", "(", "\"", "e", "x", "t", "r", "a", "\"", ",", " ", "\"", "l", "t", "o", "\"", ",", " ", "\"", "L", "i", "n", "k", "-", "t", "i", "m", "e", " ", "o", "p", "t", "i", "m", "i", "z", "a", "t", "i", "o", "n", "\"", ",", " ", "\"", "n", "o", "n", "e", "\"", ")", "\n", "o", "p", "t", "s", ".", "A", "d", "d", "(", "B", "o", "o", "l", "V", "a", "r", "i", "a", "b", "l", "e", "(", "\"", "t", "o", "o", "l", "s", "\"", ",", " ", "\"", "B", "u", "i", "l", "d", " ", "t", "h", "e", " ", "t", "o", "o", "l", "s", "\"", ",", " ", "T", "r", "u", "e", ")", ")", "\n">>

DetectText ==
    <<"d", "e", "f", " ", "g", "e", "t", "_", "n", "a", "m", "e", "(", ")", ":", "\n", " ", " ", " ", " ", "r", "e", "t", "u", "r", "n", " ", "\"", "L", "i", "n", "u", "x", "B", "S", "D", "\"", "\n", "\n", "d", "e", "f", " ", "g", "e", "t", "_", "f", "l", "a", "g", "s", "(", ")", ":", "\n", " ", " ", " ", " ", "r", "e", "t", "u", "r", "n", " ", "[", "\"", "-", "p", "i", "p", "e", "\"", "]", "\n", "\n", "d", "e", "f", " ", "g", "e", "t", "_", "l", "i", "b", "s", "(", ")", ":", "\n", " ", " ", " ", " ", "r", "e", "t", "u", "r", "n", " ", "[", "\"", "G", "L", "\"", ",", " ", "\"", "X", "1", "1", "\"", "]", "\n">>

SCsubText ==
    <<"I", "m", "p", "o", "r", "t", "(", "\"", "e", "n", "v", "\"", ")", "\n", "e", "n", "v", ".", "a", "d", "d", "_", "s", "o", "u", "r", "c", "e", "_", "f", "i", "l", "e", "s", "(", "e", "n", "v", ".", "m", "o", "d", "u", "l", "e", "s", "_", "s", "o", "u", "r", "c", "e", "s", ",", " ", "[", "\"", "*", ".", "c", "p", "p", "\"", "]", ")", "\n", "e", "n", "v", ".", "D", "e", "p", "e", "n", "d", "s", "(", "l", "i", "b", ",", " ", "[", "\"", "c", "o", "r", "e", "\"", "]", ")", "\n">>

\* Source files a library or module directory can hold, as paths below it.
SrcUniverse == <<<<<<"b", ".", "c", "p", "p">>>>, <<<<"a", ".", "c", "p", "p">>>>, <<<<"s", "u", "b">>, <<"a", ".", "h">>>>, <<<<"c", ".", "c">>>>>>
SrcCounts == 0..Min(MaxSrc, Len(SrcUniverse))

\* The directories and files of a directory at path d holding the first k
\* source files.
SrcDirs(d, k) == {d} \cup {d \o Parent(SrcUniverse[i]) : i \in 1..k}
SrcFiles(d, k) == [p \in {d \o SrcUniverse[i] : i \in 1..k} |-> <<"/", "/", " ", "s", "o", "u", "r", "c", "e", "\n">>]

\* A platform directory holds a plain file and any of: linuxbsd (with a
\* detection descriptor) and x (a directory without one).
PlatformEntries == {<<"l", "i", "n", "u", "x", "b", "s", "d">>, <<"x">>}
PlatformDirs(es) == {PlatformDir} \cup {Append(PlatformDir, e) : e \in es}
PlatformFilesOf(es) ==
    (<<<<"p", "l", "a", "t", "f", "o", "r", "m">>, <<"r", "e", "a", "d", "m", "e">>>> :> <<"p", "l", "a", "t", "f", "o", "r", "m", "s", "\n">>)
        @@ (IF <<"l", "i", "n", "u", "x", "b", "s", "d">> \in es
            THEN (<<<<"p", "l", "a", "t", "f", "o", "r", "m">>, <<"l", "i", "n", "u", "x", "b", "s", "d">>, DetectPy>> :> DetectText) ELSE EmptyMap)

\* A modules directory holds a plain file and any of: module m (a manifest
\* and its first k sources) and module n (neither manifest nor sources).
ModulesDirs(m, k, n) ==
    {ModulesDir} \cup (IF m THEN SrcDirs(<<<<"m", "o", "d", "u", "l", "e", "s">>, <<"m">>>>, k) ELSE {})
        \cup (IF n THEN {<<<<"m", "o", "d", "u", "l", "e", "s">>, <<"n">>>>} ELSE {})
ModulesFiles(m, k, n) ==
    (<<<<"m", "o", "d", "u", "l", "e", "s">>, <<"f", "i", "l", "e">>>> :> <<"m", "o", "d", "u", "l", "e", "s", "\n">>)
        @@ (IF m
            THEN (<<<<"m", "o", "d", "u", "l", "e", "s">>, <<"m">>, SCsub>> :> SCsubText) @@ SrcFiles(<<<<"m", "o", "d", "u", "l", "e", "s">>, <<"m">>>>, k)
            ELSE EmptyMap)

Absent == [dirs |-> {}, files |-> EmptyMap]
PlatformTrees ==
    {Absent} \cup {[dirs |-> PlatformDirs(es), files |-> PlatformFilesOf(es)] :
                      es \in SUBSET PlatformEntries}
ModulesTrees ==
    {Absent} \cup {[dirs |-> ModulesDirs(t[1], t[2], t[3]),
                    files |-> ModulesFiles(t[1], t[2], t[3])] :
                      t \in BOOLEAN \X SrcCounts \X BOOLEAN}
CoreTrees ==
    {Absent} \cup {[dirs |-> SrcDirs(<<<<"c", "o", "r", "e">>>>, k), files |-> SrcFiles(<<<<"c", "o", "r", "e">>>>, k)] :
                      k \in SrcCounts}
SConstructTrees == {Absent, [dirs |-> {}, files |-> (SConstructPath :> SConstructText)]}

FS == [dirs |-> dirs, files |-> files]

NoExit == <<>>

TreeInit ==
    /\ pc = "main"
    /\ exit = NoExit
    /\ run = 1
    /\ reordered = FALSE
    /\ scons_options = <<>>
    /\ platform_configs = <<>>
    /\ modules = <<>>
    /\ log = <<>>
    /\ snapshot = EmptyMap
    /\ perm \in Orders
    /\ \/ /\ argc \in {1, 3}
          /\ rootIsDir = FALSE
          /\ dirs = {}
          /\ files = EmptyMap
       \/ /\ argc = 2
          /\ rootIsDir = FALSE
          /\ dirs = {}
          /\ files = EmptyMap
       \/ /\ argc = 2
          /\ rootIsDir = TRUE
          /\ \E s \in SConstructTrees, p \in PlatformTrees, m \in ModulesTrees, c \in CoreTrees :
                /\ dirs = {RootDir} \cup p.dirs \cup m.dirs \cup c.dirs
                /\ files = s.files @@ p.files @@ m.files @@ c.files

HarnessIdle ==
    /\ line = <<>>
    /\ written = <<>>
    /\ option = None
    /\ text = <<>>
    /\ items = <<>>
    /\ content = <<>>
    /\ config = <<>>

Init == TreeInit /\ HarnessIdle

(***************************************************************************)
(* main() and convert(), one action per step.                              *)
(***************************************************************************)
Running == [dirs |-> dirs, files |-> files, log |-> log, ok |-> TRUE]

\* The step that called an emitter: its effects are kept; when it raised the
\* process ends with a traceback and status 1.
After(r, next) ==
    /\ dirs' = r.dirs
    /\ files' = r.files
    /\ log' = r.log
    /\ pc' = IF r.ok THEN next ELSE "exited"
    /\ exit' = IF r.ok THEN exit ELSE <<1>>

\* Variant for sensitivity analysis: a missing SConstruct reads as an empty file.
ReadSConstructLenient(fs) ==
    [ok |-> TRUE,
     data |-> IF IsFile(fs, SConstructPath) THEN fs.files[SConstructPath] ELSE <<>>]

\* with open(sconstruct) as f: content = f.read()
ReadSConstruct(fs) ==
    IF IsFile(fs, SConstructPath)
    THEN [ok |-> TRUE, data |-> fs.files[SConstructPath]]
    ELSE [ok |-> FALSE, data |-> <<>>]

Main ==
    /\ pc = "main"
    /\ IF argc # 2
       THEN /\ log' = Append(log, <<"U", "s", "a", "g", "e", ":", " ", "s", "c", "o", "n", "s", "_", "t", "o", "_", "c", "m", "a", "k", "e", ".", "p", "y", " ", "<", "g", "o", "d", "o", "t", "_", "r", "o", "o", "t", "_", "d", "i", "r", ">">>)
            /\ exit' = <<1>>
            /\ pc' = "exited"
       ELSE IF ~rootIsDir
       THEN /\ log' = Append(log, <<"E", "r", "r", "o", "r", ":", " ">> \o RootDirStr \o <<" ", "i", "s", " ", "n", "o", "t", " ", "a", " ", "d", "i", "r", "e", "c", "t", "o", "r", "y">>)
            /\ exit' = <<1>>
            /\ pc' = "exited"
       ELSE /\ log' = Append(log, <<"C", "o", "n", "v", "e", "r", "t", "i", "n", "g", " ", "S", "C", "o", "n", "s", " ", "t", "o", " ", "C", "M", "a", "k", "e", ".", ".", ".">>)
            /\ exit' = exit
            /\ pc' = "parse_sconstruct"
    /\ UNCHANGED <<argc, rootIsDir, dirs, files, perm, reordered, run, scons_options,
                   platform_configs, modules, snapshot>>
    /\ UNCHANGED harnessVars

ParseSConstruct ==
    /\ pc = "parse_sconstruct"
    /\ LET r == ReadSConstruct(FS)
       IN  IF r.ok
           THEN /\ scons_options' = _parse_sconstruct(r.data)
                /\ pc' = "parse_platform_configs"
                /\ exit' = exit
           ELSE /\ scons_options' = scons_options
                /\ pc' = "exited"
                /\ exit' = <<1>>
    /\ UNCHANGED <<argc, rootIsDir, dirs, files, perm, reordered, run, platform_configs,
                   modules, log, snapshot>>
    /\ UNCHANGED harnessVars

ParsePlatformConfigs ==
    /\ pc = "parse_platform_configs"
    /\ platform_configs' = _parse_platform_configs(FS, perm)
    /\ pc' = "parse_modules"
    /\ UNCHANGED <<argc, rootIsDir, dirs, files, perm, reordered, exit, run, scons_options,
                   modules, log, snapshot>>
    /\ UNCHANGED harnessVars

ParseModules ==
    /\ pc = "parse_modules"
    /\ modules' = _parse_modules(FS, perm)
    /\ pc' = "generate_root"
    /\ UNCHANGED <<argc, rootIsDir, dirs, files, perm, reordered, exit, run, scons_options,
                   platform_configs, log, snapshot>>
    /\ UNCHANGED harnessVars

GenerateRoot ==
    /\ pc = "generate_root"
    /\ After(_generate_root_cmakelists(Running, scons_options), "generate_platform")
    /\ UNCHANGED <<argc, rootIsDir, perm, reordered, run, scons_options, platform_configs,
                   modules, snapshot>>
    /\ UNCHANGED harnessVars

GeneratePlatform ==
    /\ pc = "generate_platform"
    /\ After(_generate_platform_cmake_files(Running, platform_configs), "generate_core")
    /\ UNCHANGED <<argc, rootIsDir, perm, reordered, run, scons_options, platform_configs,
                   modules, snapshot>>
    /\ UNCHANGED harnessVars

GenerateCore ==
    /\ pc = "generate_core"
    /\ After(_generate_core_cmake_files(Running, perm), "generate_modules")
    /\ UNCHANGED <<argc, rootIsDir, perm, reordered, run, scons_options, platform_configs,
                   modules, snapshot>>
    /\ UNCHANGED harnessVars

GenerateModules ==
    /\ pc = "generate_modules"
    /\ After(_generate_module_cmake_files(Running, perm, modules), "finish")
    /\ UNCHANGED <<argc, rootIsDir, perm, reordered, run, scons_options, platform_configs,
                   modules, snapshot>>
    /\ UNCHANGED harnessVars

Finish ==
    /\ pc = "finish"
    /\ log' = Append(log, <<"D", "o", "n", "e", "!", " ", "C", "M", "a", "k", "e", " ", "f", "i", "l", "e", "s", " ", "h", "a", "v", "e", " ", "b", "e", "e", "n", " ", "g", "e", "n", "e", "r", "a", "t", "e", "d", ".">>)
    /\ exit' = <<0>>
    /\ pc' = "exited"
    /\ UNCHANGED <<argc, rootIsDir, dirs, files, perm, reordered, run, scons_options,
                   platform_configs, modules, snapshot>>
    /\ UNCHANGED harnessVars

\* The converter is invoked again on the tree the last invocation left.
Rerun ==
    /\ pc = "exited"
    /\ run < MaxRuns
    /\ run' = run + 1
    /\ snapshot' = IF run = 1 THEN files ELSE snapshot
    /\ pc' = "main"
    /\ exit' = NoExit
    /\ log' = <<>>
    /\ scons_options' = <<>>
    /\ platform_configs' = <<>>
    /\ modules' = <<>>
    /\ UNCHANGED <<argc, rootIsDir, dirs, files, perm, reordered>>
    /\ UNCHANGED harnessVars

\* Between two invocations the file system comes to list in another order.
Reorder ==
    /\ pc = "exited"
    /\ run < MaxRuns
    /\ ~reordered
    /\ perm' \in Orders \ {perm}
    /\ reordered' = TRUE
    /\ UNCHANGED <<argc, rootIsDir, dirs, files, pc, exit, run, scons_options,
                   platform_configs, modules, log, snapshot>>
    /\ UNCHANGED harnessVars

Next ==
    \/ Main
    \/ ParseSConstruct
    \/ ParsePlatformConfigs
    \/ ParseModules
    \/ GenerateRoot
    \/ GeneratePlatform
    \/ GenerateCore
    \/ GenerateModules
    \/ Finish
    \/ Rerun
    \/ Reorder

Spec == Init /\ [][Next]_vars

(***************************************************************************)
(* The functions on their own: each is applied once to an input drawn from *)
(* a bounded set.                                                          *)
(***************************************************************************)
TreeIdle ==
    /\ argc = 2
    /\ rootIsDir = FALSE
    /\ dirs = {}
    /\ files = EmptyMap
    /\ perm = AllNames
    /\ reordered = FALSE
    /\ exit = NoExit
    /\ run = 1
    /\ scons_options = <<>>
    /\ platform_configs = <<>>
    /\ modules = <<>>
    /\ log = <<>>
    /\ snapshot = EmptyMap

\* Well-formed option declarations, as SConstruct writes them.
OptionKinds == {"bool", "enum", "string"}
OptionNames == {<<"t", "o", "o", "l", "s">>, <<"b", "u", "i", "l", "t", "i", "n", "_", "f", "r", "e", "e", "t", "y", "p", "e">>, <<"l", "t", "o">>}
OptionDescs == {<<"B", "u", "i", "l", "d", " ", "t", "h", "e", " ", "t", "o", "o", "l", "s">>, <<"U", "s", "e", " ", "b", "u", "i", "l", "t", "i", "n", " ", "F", "r", "e", "e", "T", "y", "p", "e", " ", "l", "i", "b", "r", "a", "r", "y">>, <<"L", "i", "n", "k", "-", "t", "i", "m", "e", " ", "o", "p", "t", "i", "m", "i", "z", "a", "t", "i", "o", "n">>}
EnumValues == <<<<"n", "o", "n", "e">>, <<"t", "h", "i", "n">>, <<"f", "u", "l", "l">>>>
OptionDefaults(kind) ==
    CASE kind = "bool" -> {<<"T", "r", "u", "e">>, <<"F", "a", "l", "s", "e">>}
      [] kind = "enum" -> {<<"n", "o", "n", "e">>, <<"f", "u", "l", "l">>}
      [] kind = "string" -> {<<"n", "o", "n", "e">>, <<"c", "u", "s", "t", "o", "m">>}
OptionGaps == {<<>>, <<" ">>}

OptionLine(d, gap) ==
    CASE d.kind = "bool" ->
            <<"o", "p", "t", "s", ".", "A", "d", "d", "(", "B", "o", "o", "l", "V", "a", "r", "i", "a", "b", "l", "e", "(", "\"">> \o d.name \o <<"\"", ",">> \o gap \o <<"\"">> \o d.desc \o <<"\"", ",">> \o gap
                \o d.default \o <<")", ")">>
      [] d.kind = "enum" ->
            <<"o", "p", "t", "s", ".", "A", "d", "d", "(", "E", "n", "u", "m", "V", "a", "r", "i", "a", "b", "l", "e", "(", "\"">> \o d.name \o <<"\"", ",">> \o gap \o <<"\"">> \o d.desc \o <<"\"", ",">> \o gap
                \o <<"\"">> \o d.default \o <<"\"", ",">> \o gap \o <<"(", "\"">>
                \o JoinWith(<<"\"", ",", " ", "\"">>, EnumValues) \o <<"\"", ")", ")", ")">>
      [] d.kind = "string" ->
            <<"o", "p", "t", "s", ".", "A", "d", "d", "(", "\"">> \o d.name \o <<"\"", ",">> \o gap \o <<"\"">> \o d.desc \o <<"\"", ",">> \o gap
                \o <<"\"">> \o d.default \o <<"\"", ")">>

InitOption ==
    /\ TreeIdle
    /\ pc = "parse_option"
    /\ \E kind \in OptionKinds, name \in OptionNames, desc \in OptionDescs, gap \in OptionGaps :
          \E default \in OptionDefaults(kind) :
             /\ written = [kind |-> kind, name |-> name, desc |-> desc, default |-> default]
             /\ line = OptionLine(written, gap)
    /\ option = None
    /\ text = <<>>
    /\ items = <<>>
    /\ content = <<>>
    /\ config = <<>>

ParseOption ==
    /\ pc = "parse_option"
    /\ option' = _parse_option(line)
    /\ pc' = "parsed_option"
    /\ UNCHANGED <<line, written, text, items, content, config>>
    /\ UNCHANGED treeVars

NextOption == ParseOption

SpecOption == InitOption /\ [][NextOption]_vars

\* Texts given to _extract_list_items.
ListAlphabet == {"[", "]", ",", "\"", "'", " ", "a", "\n"}
ListTexts == UNION {[1..n -> ListAlphabet] : n \in 0..MaxTextLen}

InitList ==
    /\ TreeIdle
    /\ pc = "extract_list_items"
    /\ text \in ListTexts
    /\ items = <<>>
    /\ line = <<>>
    /\ written = <<>>
    /\ option = None
    /\ content = <<>>
    /\ config = <<>>

ExtractListItems ==
    /\ pc = "extract_list_items"
    /\ items' = _extract_list_items(text)
    /\ pc' = "extracted"
    /\ UNCHANGED <<line, written, option, text, content, config>>
    /\ UNCHANGED treeVars

NextList == ExtractListItems

SpecList == InitList /\ [][NextList]_vars

\* Detection descriptors: up to MaxLines lines, each one of DetectLines.
DetectLines ==
    {<<"d", "e", "f", " ", "g", "e", "t", "_", "f", "l", "a", "g", "s", "(", ")", ":">>, <<"d", "e", "f", " ", "g", "e", "t", "_", "l", "i", "b", "s", "(", ")", ":">>, <<"d", "e", "f", " ", "c", "o", "n", "f", "i", "g", "u", "r", "e", "(", "e", "n", "v", ")", ":">>,
     <<" ", " ", " ", " ", "r", "e", "t", "u", "r", "n", " ", "[", "\"", "a", "\"", "]">>, <<" ", " ", " ", " ", "d", "e", "f", "i", "n", "e", "s", " ", "=", " ", "[", "\"", "b", "\"", "]">>, <<" ", " ", " ", " ", "e", "n", "v", ".", "A", "p", "p", "e", "n", "d", "(", "L", "I", "B", "S", "=", "[", "\"", "c", "\"", ",", " ", "\"", "d", "\"", "]", ")">>}
DetectTexts == {JoinWith(<<"\n">>, ls) : ls \in UNION {[1..n -> DetectLines] : n \in 0..MaxLines}}

InitDetect ==
    /\ TreeIdle
    /\ pc = "parse_platform_detect"
    /\ content \in DetectTexts
    /\ config = <<>>
    /\ line = <<>>
    /\ written = <<>>
    /\ option = None
    /\ text = <<>>
    /\ items = <<>>

ParsePlatformDetect ==
    /\ pc = "parse_platform_detect"
    /\ config' = _parse_platform_detect(<<"l", "i", "n", "u", "x", "b", "s", "d">>, content)
    /\ pc' = "parsed_platform_detect"
    /\ UNCHANGED <<line, written, option, text, items, content>>
    /\ UNCHANGED treeVars

NextDetect == ParsePlatformDetect

SpecDetect == InitDetect /\ [][NextDetect]_vars

(***************************************************************************)
(* Vocabulary of the properties.                                           *)
(***************************************************************************)
Lines(data) == Split(data, "\n")
Elems(s) == {s[i] : i \in 1..Len(s)}
Count(s, x) == Cardinality({i \in 1..Len(s) : s[i] = x})

\* The files the converter writes: every CMakeLists.txt and all of cmake/.
Generated(fs) == {p \in DOMAIN fs.files : p[Len(p)] = CMakeLists \/ p[1] = <<"c", "m", "a", "k", "e">>}

\* The project root is a directory, the converter got its one argument.
Invoked == argc = 2 /\ rootIsDir

\* Collection is over in the current invocation.
Collected ==
    pc \in {"generate_root", "generate_platform", "generate_core", "generate_modules", "finish"}

\* The directory modules/name holds a file with a source extension.
IsSourceName(n) == \E e \in {<<".", "c", "p", "p">>, <<".", "c">>, <<".", "h">>, <<".", "h", "p", "p">>, <<".", "i", "n", "c">>} : EndsWith(n, e)
HasSources(fs, dir) ==
    \E p \in DOMAIN fs.files :
        Len(p) > Len(dir) /\ SubSeq(p, 1, Len(dir)) = dir /\ IsSourceName(p[Len(p)])

\* Lexicographic order of texts over the characters paths are written in.
AsciiOrder == <<".", "/">> \o Digits \o UpperCase \o <<"_">> \o LowerCase
Ord(c) == CHOOSE i \in 1..Len(AsciiOrder) : AsciiOrder[i] = c
LexLeq(a, b) ==
    \/ \E i \in 1..Min(Len(a), Len(b)) :
          /\ SubSeq(a, 1, i - 1) = SubSeq(b, 1, i - 1)
          /\ Ord(a[i]) < Ord(b[i])
    \/ Len(a) <= Len(b) /\ SubSeq(b, 1, Len(a)) = a

\* The source-list lines of a library or module file: the indented lines
\* that follow the set( line, without their indentation.
SourceLines(data) ==
    LET ls == Lines(data)
        plain == {i \in 4..Len(ls) : ~StartsWith(ls[i], <<" ", " ", " ", " ">>)}
        stop == IF plain = {} THEN Len(ls) + 1
                ELSE CHOOSE i \in plain : \A j \in plain : i <= j
    IN  [i \in 1..(stop - 4) |-> SubSeq(ls[i + 3], 5, Len(ls[i + 3]))]

\* The library and module files written so far.
TargetFiles(fs) ==
    {p \in DOMAIN fs.files :
        /\ p[Len(p)] = CMakeLists
        /\ \/ Len(p) = 2 /\ p[1] \in Elems(core_libs)
           \/ Len(p) = 3 /\ p[1] = <<"m", "o", "d", "u", "l", "e", "s">>}

(***************************************************************************)
(* C1: for every well-formed option declaration line (boolean, enumerated  *)
(* or string-valued), _parse_option returns an option, never none, whose   *)
(* kind, name, description and default are those written in the line.      *)
(***************************************************************************)
C1_OptionRecovered ==
    pc = "parsed_option" =>
        /\ option # None
        /\ option.type = written.kind
        /\ option.name = written.name
        /\ option.desc = written.desc
        /\ IF written.kind = "bool"
           THEN option.default = (written.default = <<"T", "r", "u", "e">>)
           ELSE option.default = written.default

(***************************************************************************)
(* C2: when SConstruct is missing under the project root, the run ends     *)
(* with a non-zero exit status and no generated file exists: no            *)
(* CMakeLists.txt anywhere, nothing under cmake/, not even the directory.  *)
(***************************************************************************)
C2_MissingSConstructFatal ==
    (Invoked /\ ~IsFile(FS, SConstructPath)) =>
        /\ pc \notin {"parse_platform_configs", "parse_modules", "generate_root",
                      "generate_platform", "generate_core", "generate_modules", "finish"}
        /\ pc = "exited" => exit = <<1>>
        /\ Generated(FS) = {}
        /\ ~IsDir(FS, CMakeDir)

C2_Witness ==
    /\ Invoked
    /\ ~IsFile(FS, SConstructPath)
    /\ pc = "exited"
    /\ exit = <<1>>
    /\ IsDir(FS, <<<<"m", "o", "d", "u", "l", "e", "s">>, <<"m">>>>)
    /\ IsDir(FS, <<<<"c", "o", "r", "e">>>>)

(***************************************************************************)
(* C3: with a readable SConstruct but no platform directory or no modules  *)
(* directory, the missing directory counts as zero platforms or zero       *)
(* modules: collection returns an empty mapping, every emitter runs to     *)
(* completion and the process ends with exit status 0.                     *)
(***************************************************************************)
C3_MissingDirectoryTolerated ==
    (Invoked /\ IsFile(FS, SConstructPath)) =>
        /\ (Collected /\ ~IsDir(FS, PlatformDir)) => platform_configs = <<>>
        /\ (Collected /\ ~IsDir(FS, ModulesDir)) => modules = <<>>
        /\ (pc = "exited" /\ (~IsDir(FS, PlatformDir) \/ ~IsDir(FS, ModulesDir))) =>
              exit = <<0>>

(***************************************************************************)
(* C4: running the converter again on the tree the first run left, with    *)
(* the same listing order, leaves every file with the contents it had      *)
(* after the first run; no source descriptor or source file is             *)
(* overwritten.                                                            *)
(***************************************************************************)
SourcesIntact ==
    \A p \in DOMAIN files \ Generated(FS) :
        files[p] = CASE p = SConstructPath -> SConstructText
                     [] p[Len(p)] = DetectPy -> DetectText
                     [] p[Len(p)] = SCsub -> SCsubText
                     [] p = <<<<"p", "l", "a", "t", "f", "o", "r", "m">>, <<"r", "e", "a", "d", "m", "e">>>> -> <<"p", "l", "a", "t", "f", "o", "r", "m", "s", "\n">>
                     [] p = <<<<"m", "o", "d", "u", "l", "e", "s">>, <<"f", "i", "l", "e">>>> -> <<"m", "o", "d", "u", "l", "e", "s", "\n">>
                     [] OTHER -> <<"/", "/", " ", "s", "o", "u", "r", "c", "e", "\n">>

C4_Idempotent ==
    /\ SourcesIntact
    /\ (pc = "exited" /\ run >= 2 /\ ~reordered) => files = snapshot

C4_Witness ==
    /\ pc = "exited"
    /\ run = 2
    /\ ~reordered
    /\ exit = <<0>>
    /\ <<<<"c", "o", "r", "e">>, CMakeLists>> \in DOMAIN files
    /\ <<<<"c", "o", "r", "e">>, <<"a", ".", "c", "p", "p">>>> \in DOMAIN files
    /\ <<<<"m", "o", "d", "u", "l", "e", "s">>, <<"m">>, CMakeLists>> \in DOMAIN files
    /\ <<<<"c", "m", "a", "k", "e">>, <<"p", "l", "a", "t", "f", "o", "r", "m", "_", "l", "i", "n", "u", "x", "b", "s", "d", ".", "c", "m", "a", "k", "e">>>> \in DOMAIN files
    /\ files = snapshot

(***************************************************************************)
(* C5: for a fixed set of source files under a library or module           *)
(* directory, runs that differ only in the order in which the directory    *)
(* listing returns them emit the same source-list lines in the same        *)
(* order: the emitted order is lexicographic by relative path.             *)
(***************************************************************************)
C5_ListingOrderIndependent ==
    pc = "exited" =>
        \A p \in TargetFiles(FS) :
            /\ LET src == SourceLines(files[p])
               IN  \A i \in 1..(Len(src) - 1) : LexLeq(src[i], src[i + 1])
            /\ (run >= 2 /\ p \in DOMAIN snapshot) =>
                  SourceLines(files[p]) = SourceLines(snapshot[p])

(***************************************************************************)
(* C6: after collection the platforms mapping has a key for an immediate   *)
(* subdirectory of platform/ iff it holds detect.py, the modules mapping   *)
(* has a key for every immediate subdirectory of modules/, a module        *)
(* without SCsub maps to empty sources and dependencies, and plain files   *)
(* under either root are never keys.                                       *)
(***************************************************************************)
SubDirs(fs, d) == {p[Len(p)] : p \in {q \in fs.dirs : Len(q) = Len(d) + 1 /\ Parent(q) = d}}
PlainFiles(fs, d) ==
    {p[Len(p)] : p \in {q \in DOMAIN fs.files : Len(q) = Len(d) + 1 /\ Parent(q) = d}}

C6_CollectedKeys ==
    Collected =>
        /\ Elems(Keys(platform_configs)) =
              {n \in SubDirs(FS, PlatformDir) : Exists(FS, <<<<"p", "l", "a", "t", "f", "o", "r", "m">>, n, DetectPy>>)}
        /\ Elems(Keys(modules)) = SubDirs(FS, ModulesDir)
        /\ Len(platform_configs) = Cardinality(Elems(Keys(platform_configs)))
        /\ Len(modules) = Cardinality(Elems(Keys(modules)))
        /\ \A i \in 1..Len(modules) :
              ~Exists(FS, <<<<"m", "o", "d", "u", "l", "e", "s">>, modules[i].name, SCsub>>) =>
                  modules[i].sources = <<>> /\ modules[i].deps = <<>>
        /\ Elems(Keys(platform_configs)) \cap PlainFiles(FS, PlatformDir) = {}
        /\ Elems(Keys(modules)) \cap PlainFiles(FS, ModulesDir) = {}

C6_Witness ==
    /\ pc = "generate_root"
    /\ Keys(platform_configs) = <<<<"l", "i", "n", "u", "x", "b", "s", "d">>>>
    /\ IsDir(FS, <<<<"p", "l", "a", "t", "f", "o", "r", "m">>, <<"x">>>>)
    /\ IsFile(FS, <<<<"p", "l", "a", "t", "f", "o", "r", "m">>, <<"r", "e", "a", "d", "m", "e">>>>)
    /\ Elems(Keys(modules)) = {<<"m">>, <<"n">>}
    /\ IsFile(FS, <<<<"m", "o", "d", "u", "l", "e", "s">>, <<"f", "i", "l", "e">>>>)

(***************************************************************************)
(* C7: for every collected module whose directory holds no file with a     *)
(* source extension, the module emitter prints a warning, the umbrella     *)
(* modules/CMakeLists.txt holds exactly one add_subdirectory line for it   *)
(* (one line per collected module, in collection order), the module's own  *)
(* CMakeLists.txt is written without an add_library target, and the run    *)
(* goes on to the other modules and ends successfully.                     *)
(***************************************************************************)
EmptyModules ==
    {i \in 1..Len(modules) : ~HasSources(FS, <<<<"m", "o", "d", "u", "l", "e", "s">>, modules[i].name>>)}

C7_EmptyModuleStillEmitted ==
    (pc = "exited" /\ EmptyModules # {}) =>
        /\ exit = <<0>>
        /\ Lines(files[<<<<"m", "o", "d", "u", "l", "e", "s">>, CMakeLists>>]) =
              <<<<"#", " ", "G", "o", "d", "o", "t", " ", "m", "o", "d", "u", "l", "e", "s">>, <<>>>>
                  \o [i \in 1..Len(modules) |-> <<"a", "d", "d", "_", "s", "u", "b", "d", "i", "r", "e", "c", "t", "o", "r", "y", "(">> \o modules[i].name \o <<")">>]
        /\ \A i \in 1..Len(modules) :
              /\ Count(Lines(files[<<<<"m", "o", "d", "u", "l", "e", "s">>, CMakeLists>>]),
                       <<"a", "d", "d", "_", "s", "u", "b", "d", "i", "r", "e", "c", "t", "o", "r", "y", "(">> \o modules[i].name \o <<")">>) = 1
              /\ IsFile(FS, <<<<"m", "o", "d", "u", "l", "e", "s">>, modules[i].name, CMakeLists>>)
        /\ \A i \in EmptyModules :
              /\ \E j \in 1..Len(log) :
                    StartsWith(log[j], <<"W", "a", "r", "n", "i", "n", "g", ":", " ", "N", "o", " ", "s", "o", "u", "r", "c", "e", " ", "f", "i", "l", "e", "s", " ", "f", "o", "u", "n", "d", " ", "f", "o", "r", " ", "m", "o", "d", "u", "l", "e", " ">>
                                           \o modules[i].name \o <<" ", "i", "n", " ">>)
              /\ ~Contains(files[<<<<"m", "o", "d", "u", "l", "e", "s">>, modules[i].name, CMakeLists>>], <<"a", "d", "d", "_", "l", "i", "b", "r", "a", "r", "y">>)

C7_Witness ==
    /\ pc = "exited"
    /\ exit = <<0>>
    /\ Len(modules) = 2
    /\ Cardinality(EmptyModules) = 1
    /\ HasSources(FS, <<<<"m", "o", "d", "u", "l", "e", "s">>, <<"m">>>>)
    /\ Contains(files[<<<<"m", "o", "d", "u", "l", "e", "s">>, <<"m">>, CMakeLists>>], <<"a", "d", "d", "_", "l", "i", "b", "r", "a", "r", "y", "(", "m", " ">>)

(***************************************************************************)
(* C8: for every library name of core_libs whose directory exists, the     *)
(* library file ends with the include-directory declaration followed by    *)
(* the UNIX AND NOT APPLE block of compile definitions, whether or not     *)
(* source files were found.                                                *)
(***************************************************************************)
LibraryTail(lib) ==
    JoinWith(<<"\n">>,
        <<<<>>,
          <<"t", "a", "r", "g", "e", "t", "_", "i", "n", "c", "l", "u", "d", "e", "_", "d", "i", "r", "e", "c", "t", "o", "r", "i", "e", "s", "(">> \o lib,
          <<" ", " ", " ", " ", "P", "U", "B", "L", "I", "C">>,
          <<" ", " ", " ", " ", " ", " ", " ", " ", "$", "{", "C", "M", "A", "K", "E", "_", "C", "U", "R", "R", "E", "N", "T", "_", "S", "O", "U", "R", "C", "E", "_", "D", "I", "R", "}">>,
          <<" ", " ", " ", " ", " ", " ", " ", " ", "$", "{", "C", "M", "A", "K", "E", "_", "S", "O", "U", "R", "C", "E", "_", "D", "I", "R", "}">>,
          <<")">>,
          <<>>,
          <<"i", "f", "(", "U", "N", "I", "X", " ", "A", "N", "D", " ", "N", "O", "T", " ", "A", "P", "P", "L", "E", ")">>,
          <<" ", " ", " ", " ", "t", "a", "r", "g", "e", "t", "_", "c", "o", "m", "p", "i", "l", "e", "_", "d", "e", "f", "i", "n", "i", "t", "i", "o", "n", "s", "(">> \o lib,
          <<" ", " ", " ", " ", " ", " ", " ", " ", "P", "R", "I", "V", "A", "T", "E">>,
          <<" ", " ", " ", " ", " ", " ", " ", " ", "U", "N", "I", "X", "_", "E", "N", "A", "B", "L", "E", "D">>,
          <<" ", " ", " ", " ", " ", " ", " ", " ", "X", "1", "1", "_", "E", "N", "A", "B", "L", "E", "D">>,
          <<" ", " ", " ", " ", " ", " ", " ", " ", "V", "U", "L", "K", "A", "N", "_", "E", "N", "A", "B", "L", "E", "D">>,
          <<" ", " ", " ", " ", " ", " ", " ", " ", "G", "L", "E", "S", "3", "_", "E", "N", "A", "B", "L", "E", "D">>,
          <<" ", " ", " ", " ", ")">>,
          <<"e", "n", "d", "i", "f", "(", ")">>>>)

C8_LibraryFileEnding ==
    pc \in {"generate_modules", "finish"} =>
        \A i \in 1..Len(core_libs) :
            Exists(FS, <<core_libs[i]>>) =>
                /\ IsFile(FS, <<core_libs[i], CMakeLists>>)
                /\ EndsWith(files[<<core_libs[i], CMakeLists>>], LibraryTail(core_libs[i]))

(***************************************************************************)
(* C9: the body extracted for get_flags (and likewise get_libs) is the     *)
(* text from that function's declaration up to the next function           *)
(* declaration or the end of the text, so every bracketed list inside the  *)
(* function's body, and none of a later function, gives its items, in      *)
(* order, to flags (libs); without the declaration the sequence is empty.  *)
(***************************************************************************)
IsDeclaration(ln) == StartsWith(ln, <<"d", "e", "f", " ">>)

FunctionBodyItems(fname, detect) ==
    LET ls == Lines(detect)
        decls == {i \in 1..Len(ls) : ls[i] = <<"d", "e", "f", " ">> \o fname \o <<"(", ")", ":">>}
        first == CHOOSE i \in decls : \A j \in decls : i <= j
        later == {i \in (first + 1)..Len(ls) : IsDeclaration(ls[i])}
        stop == IF later = {} THEN Len(ls) + 1
                ELSE CHOOSE i \in later : \A j \in later : i <= j
    IN  IF decls = {} THEN <<>>
        ELSE Flatten([i \in 1..(stop - first - 1) |-> _extract_list_items(ls[first + i])])

C9_FunctionBodyItems ==
    pc = "parsed_platform_detect" =>
        /\ config.flags = FunctionBodyItems(<<"g", "e", "t", "_", "f", "l", "a", "g", "s">>, content)
        /\ config.libs = FunctionBodyItems(<<"g", "e", "t", "_", "l", "i", "b", "s">>, content)

(***************************************************************************)
(* C10: _extract_list_items returns the elements of the bracketed lists    *)
(* of the text, each trimmed of surrounding whitespace and quotes, empty   *)
(* tokens skipped: no element of the result is the empty string, and a     *)
(* text without a bracketed list gives the empty result.                   *)
(***************************************************************************)
HasBracketedList(t) ==
    \E i \in 1..Len(t) : \E j \in (i + 1)..Len(t) : t[i] = "[" /\ t[j] = "]"

C10_ListItems ==
    pc = "extracted" =>
        /\ \A i \in 1..Len(items) : items[i] # <<>>
        /\ \A i \in 1..Len(items) : items[i] = Strip(items[i], QuoteChars \cup Whitespace)
        /\ ~HasBracketedList(text) => items = <<>>

====
